---- MODULE Spec2Model ----
(***************************************************************************)
(* State-machine model of the ADT Pulse integration for Home Assistant     *)
(* (custom_components/adtpulse): the polling coordinator and the setup of  *)
(* a config entry (__init__.py), the alarm panel entity and its state map  *)
(* (alarm_control_panel.py) and the zone classifier (binary_sensor.py).    *)
(*                                                                         *)
(* Four specifications share the module:                                   *)
(*   Spec          the running integration: setup, polls, listeners,       *)
(*                 commands, unload;                                       *)
(*   SpecFn        the entity constructors applied to bounded sets of      *)
(*                 inputs (vendor alarm codes, zone tag lists, names);     *)
(*   SpecPlatform  binary_sensor.async_setup_entry applied to bounded      *)
(*                 services (sites and their zones);                       *)
(*   SpecFlow      the config flow (config_flow.py): forms submitted by    *)
(*                 concurrent flows, validation, the persisted entries.    *)
(***************************************************************************)
EXTENDS Integers, Sequences, FiniteSets, TLC

VARIABLES
    \* ---- Spec: the running integration ----
    entryState,        \* config entry: "not_loaded" | "setup" | "setup_retry" | "loaded"
                       \*   | "unloaded" | "failed_unload"
    hassData,          \* hass.data[ADTPULSE_DOMAIN][entry_id]: "absent" | "adtpulse" | "coordinator"
    adtpulse,          \* the PyADTPulse object: the fields update() writes in place
    data,              \* coordinator.data: "None" | "adtpulse" (a reference, never a copy)
    last_update_success,
    inFlight,          \* number of _async_update_data calls not yet returned
    pollOrigin,        \* who started the poll in flight: "none" | "setup" | "tick"
    written,           \* fields the executor job has written so far in this poll
    target,            \* the state of the service that the last poll started is fetching
    before,            \* adtpulse as it was when the last poll started
    timerArmed,        \* the coordinator's scheduled refresh (_unsub_refresh) is pending
    cycles,            \* completed poll cycles
    lastCycle,         \* record of the last completed cycle
    platforms,         \* per platform: "none" | "pending" | "done"
    listeners,         \* coordinator listeners, in registration order
    subscribedAt,      \* per entity: value of cycles when it subscribed
    notified,          \* per entity: the cycles it was notified of, in order
    displayed,         \* the alarm state last written to the state machine
    icon,              \* the zone sensor's _icon
    observed,          \* the values last read from the entities' properties since the last poll started
    lastCommand,       \* the last alarm command: its result, the polls it started,
                       \* the alarm state shown before it
    \* ---- SpecFn: constructors on bounded inputs ----
    site_status,       \* site.status of the site a panel is built for
    panel_state,       \* ALARM_MAP[site.status] passed on at construction
    panel_status,      \* value of the panel's status property
    zone_tags,         \* zone_data.tags
    zone_name,         \* zone_data.name
    device_class,      \* result of _determine_device_class
    zone_state,        \* zone_data.state
    zone_icon,         \* the zone sensor's _icon after _set_icon
    icon_seen,         \* per value of is_on: the _icon that _set_icon gave, "unset" before
    handled,           \* zone state and is_on read at the last coordinator notification
    \* ---- SpecPlatform: binary_sensor.async_setup_entry on bounded services ----
    sites,             \* adt_service.sites: per site the tag lists of its zones
    added_entities,    \* the lists passed to async_add_entities, in call order
    setup_result,      \* "unset" | "returned" | "raised"
    \* ---- SpecFlow: PulseConfigFlow ----
    entries,           \* the persisted config entries, in creation order
    flows,             \* per flow: its reauth flag, position, input and result
    submissions,       \* number of forms submitted so far
    reloaded           \* outcome of the last async_reload: "none" | "ok" | KeyError

sysVars == <<entryState, hassData, adtpulse, data, last_update_success,
             inFlight, pollOrigin, written, target, before, timerArmed, cycles,
             lastCycle, platforms, listeners, subscribedAt, notified, displayed,
             icon, observed, lastCommand>>
fnVars == <<site_status, panel_state, panel_status, zone_tags, zone_name, device_class>>
iconVars == <<zone_state, zone_icon, icon_seen, handled>>
plVars == <<sites, added_entities, setup_result>>
flowVars == <<entries, flows, submissions, reloaded>>
nonSysVars == <<fnVars, iconVars, plVars, flowVars>>
vars == <<sysVars, fnVars, iconVars, plVars, flowVars>>

Range(s) == {s[i] : i \in DOMAIN s}

(***************************************************************************)
(* alarm_control_panel.py: ALARM_MAP                                       *)
(***************************************************************************)
\* pyadtpulse.site vendor codes
ADT_ALARM_ARMING == "arming"
ADT_ALARM_AWAY == "away"
ADT_ALARM_DISARMING == "disarming"
ADT_ALARM_HOME == "stay"
ADT_ALARM_OFF == "off"
ADT_ALARM_UNKNOWN == "unknown"
\* homeassistant.const alarm states; Python's None is the string "None"
STATE_ALARM_ARMING == "arming"
STATE_ALARM_ARMED_AWAY == "armed_away"
STATE_ALARM_DISARMING == "disarming"
STATE_ALARM_ARMED_HOME == "armed_home"
STATE_ALARM_DISARMED == "disarmed"
None == "None"
KeyError == "KeyError"
ValueError == "ValueError"

ALARM_MAP ==
    (ADT_ALARM_ARMING :> STATE_ALARM_ARMING) @@
    (ADT_ALARM_AWAY :> STATE_ALARM_ARMED_AWAY) @@
    (ADT_ALARM_DISARMING :> STATE_ALARM_DISARMING) @@
    (ADT_ALARM_HOME :> STATE_ALARM_ARMED_HOME) @@
    (ADT_ALARM_OFF :> STATE_ALARM_DISARMED) @@
    (ADT_ALARM_UNKNOWN :> None)

\* ALARM_MAP[self._site.status]: a dict subscript, which raises KeyError
\* for a key the dict does not hold.
AlarmMapLookup(code) ==
    IF code \in DOMAIN ALARM_MAP THEN ALARM_MAP[code] ELSE KeyError

(***************************************************************************)
(* binary_sensor.py: ADT_DEVICE_CLASS_TAG_MAP and _determine_device_class  *)
(***************************************************************************)
\* BinarySensorDeviceClass values
DOOR == "door"
OCCUPANCY == "occupancy"
SMOKE == "smoke"
TAMPER == "tamper"
CO == "carbon_monoxide"
HEAT == "heat"
MOISTURE == "moisture"
GARAGE_DOOR == "garage_door"
WINDOW == "window"
MOTION == "motion"
CONNECTIVITY == "connectivity"

\* The dict's keys in insertion order, and the dict.
TagTable == <<"doorWindow", "motion", "smoke", "glass", "co", "fire", "flood", "garage">>
ADT_DEVICE_CLASS_TAG_MAP ==
    ("doorWindow" :> DOOR) @@ ("motion" :> OCCUPANCY) @@ ("smoke" :> SMOKE) @@
    ("glass" :> TAMPER) @@ ("co" :> CO) @@ ("fire" :> HEAT) @@
    ("flood" :> MOISTURE) @@ ("garage" :> GARAGE_DOOR)

\* Python's `pat in s` on strings held as sequences of characters.
Contains(s, pat) ==
    \E i \in 0..(Len(s) - Len(pat)) :
        \A k \in 1..Len(pat) : s[i + k] = pat[k]

Str_Window == <<"W", "i", "n", "d", "o", "w">>
Str_window == <<"w", "i", "n", "d", "o", "w">>

\* variant: the table is scanned in its own order for a tag the zone has
RECURSIVE FirstMappedScanTable(_, _)
FirstMappedScanTable(tags, i) ==
    IF i > Len(TagTable) THEN None
    ELSE IF TagTable[i] \in Range(tags) THEN ADT_DEVICE_CLASS_TAG_MAP[TagTable[i]]
    ELSE FirstMappedScanTable(tags, i + 1)
\* for tag in tags: try: device_class = MAP[tag]; break / except KeyError: continue
RECURSIVE FirstMappedFrom(_, _)
FirstMappedFrom(tags, i) ==
    IF i > Len(tags) THEN None
    ELSE IF tags[i] \in DOMAIN ADT_DEVICE_CLASS_TAG_MAP
         THEN ADT_DEVICE_CLASS_TAG_MAP[tags[i]]
    ELSE FirstMappedFrom(tags, i + 1)

FirstMappedTableOrder(tags) == FirstMappedScanTable(tags, 1)
FirstMapped(tags) == FirstMappedFrom(tags, 1)

\* variant: the scan without the "sensor" guard
SensorScanUnguarded(tags) == FirstMapped(tags)
\* if "sensor" in tags: (scan); device_class stays None otherwise
SensorScan(tags) == IF "sensor" \in Range(tags) THEN FirstMapped(tags) ELSE None

\* the door -> window upgrade by name
UpgradeByName(dc, name) ==
    IF dc = DOOR /\ (Contains(name, Str_Window) \/ Contains(name, Str_window))
    THEN WINDOW ELSE dc

\* _determine_device_class: the device class, or ValueError when it raises
DetermineDeviceClass(tags, name) ==
    LET dc == SensorScan(tags) IN
    IF dc = None THEN ValueError ELSE UpgradeByName(dc, name)

\* _set_icon: the icon for a device class and the tripped flag
SetIcon(dc, is_on) ==
    IF dc = DOOR THEN (IF is_on THEN "mdi:door-open" ELSE "mdi:door")
    ELSE IF dc = MOTION THEN (IF is_on THEN "mdi:run-fast" ELSE "mdi:motion-sensor")
    ELSE IF dc = SMOKE THEN (IF is_on THEN "mdi:fire" ELSE "mdi:smoke-detector")
    ELSE IF dc = WINDOW THEN "mdi:window-closed-variant"
    ELSE IF dc = CO THEN "mdi:molecule-co"
    ELSE "mdi:window-closed-variant"

(***************************************************************************)
(* Bounds and the data of the running integration                          *)
(***************************************************************************)
MaxCycles == 3      \* poll cycles started in one behaviour

\* pyadtpulse.const.STATE_OK and one other zone state
STATE_OK == "OK"
ZoneStates == {STATE_OK, "Open"}
\* the alarm codes the service reports in the running integration
SiteStatuses == {ADT_ALARM_OFF, ADT_ALARM_AWAY}
\* The fields update() refreshes: the site's alarm status, the zone's state,
\* the gateway flag.  One site with one zone.
Fields == {"status", "zone", "gateway"}
Snapshots == [status : SiteStatuses, zone : ZoneStates, gateway : BOOLEAN]
NoSnap == [status |-> None, zone |-> None, gateway |-> FALSE]
\* the zone of the site: {'name': 'Front Door', 'tags': ['sensor', 'doorWindow']}
ZoneTags == <<"sensor", "doorWindow">>
ZoneName == <<"F", "r", "o", "n", "t", " ", "D", "o", "o", "r">>

SUPPORTED_PLATFORMS == {"alarm_control_panel", "binary_sensor"}
Entities == {"alarm", "zone", "gateway"}
Commands == {"disarm", "arm_home", "arm_away", "arm_custom_bypass"}

NoCycle == [ok |-> TRUE, origin |-> "none", prevOk |-> TRUE]
NoObservation == [status |-> "unread", is_on |-> FALSE, gateway |-> FALSE]
NoCommand == [issued |-> FALSE, ok |-> FALSE, polls |-> 0, shownBefore |-> None]

\* is_on of the zone sensor and of the gateway sensor, status of the panel
\* is_on of a zone sensor: return not self._my_zone.state == STATE_OK
ZoneStateIsOn(state) == ~(state = STATE_OK)
ZoneIsOn(snap) == ~(snap.zone = STATE_OK)
GatewayIsOn(snap) == snap.gateway
PanelStatus(snap) == AlarmMapLookup(snap.status)
\* what the three entities show for a given content of the client object
View(snap) == [status |-> PanelStatus(snap), is_on |-> ZoneIsOn(snap),
               gateway |-> GatewayIsOn(snap)]

SysInit ==
    /\ entryState = "not_loaded"
    /\ hassData = "absent"
    /\ adtpulse = NoSnap
    /\ data = None
    /\ last_update_success = TRUE
    /\ inFlight = 0
    /\ pollOrigin = "none"
    /\ written = {}
    /\ target = NoSnap
    /\ before = NoSnap
    /\ timerArmed = FALSE
    /\ cycles = 0
    /\ lastCycle = NoCycle
    /\ platforms = [p \in SUPPORTED_PLATFORMS |-> "none"]
    /\ listeners = <<>>
    /\ subscribedAt = [e \in Entities |-> 0]
    /\ notified = [e \in Entities |-> <<>>]
    /\ displayed = None
    /\ icon = None
    /\ observed = NoObservation
    /\ lastCommand = NoCommand

\* nothing has called _set_icon
NoIcons == [on \in BOOLEAN |-> "unset"]
\* no coordinator notification has reached the zone sensor
NoHandled == [state |-> "none", is_on |-> FALSE]
IconIdle ==
    /\ zone_state = STATE_OK
    /\ zone_icon = "unset"
    /\ icon_seen = NoIcons
    /\ handled = NoHandled

\* no service is handed to the binary_sensor platform
PlIdle ==
    /\ sites = <<>>
    /\ added_entities = <<>>
    /\ setup_result = "unset"

\* config_flow.py: the flows and the form they show
MaxFlows == 2        \* config flows in progress at once
Flows == 1..MaxFlows
\* the keys of a config entry's data; a key the dict lacks reads as None
\* (entry.data.get) and raises KeyError when subscripted
CONF_USERNAME == "username"
CONF_PASSWORD == "password"
CONF_FINGERPRINT == "fingerprint"
CONF_HOSTNAME == "hostname"
CredentialKeys == {CONF_USERNAME, CONF_PASSWORD, CONF_FINGERPRINT, CONF_HOSTNAME}
DataKeys == CredentialKeys \cup {"title"}
NoFlow == [pc |-> "idle", reauth |-> FALSE, user_input |-> None,
           existing_entry |-> 0, errors |-> "none", result |-> "none",
           logins |-> 0, logouts |-> 0,
           login |-> "none", has_sites |-> FALSE, logout_raises |-> FALSE]
FlowIdle ==
    /\ entries = <<>>
    /\ flows = [f \in Flows |-> NoFlow]
    /\ submissions = 0
    /\ reloaded = "none"

FnIdle ==
    /\ site_status = None
    /\ panel_state = "unset"
    /\ panel_status = "unset"
    /\ zone_tags = <<>>
    /\ zone_name = <<>>
    /\ device_class = "unset"

(***************************************************************************)
(* __init__.py: async_setup_entry and ADTPulseDataUpdateCoordinator.       *)
(* The refresh cycle itself (async_refresh, the refresh timer, the         *)
(* listener list) is inherited from DataUpdateCoordinator.                 *)
(***************************************************************************)
ZoneDeviceClass == DetermineDeviceClass(ZoneTags, ZoneName)

\* variant: a setup that does not look at last_update_success
SetupOutcomeIgnoresFailure(ok) == "loaded"
\* The end of async_setup_entry:
\*     if not coordinator.last_update_success: raise ConfigEntryNotReady
SetupOutcome(ok) == IF ok THEN "loaded" ELSE "setup_retry"

\* async_refresh cancels the pending scheduled refresh before it polls; the
\* next one is scheduled when the cycle ends.
TimerWhilePolling(armed) == FALSE

\* The first listener of a coordinator schedules the refresh timer.
ScheduleOnSubscribe(ls) == ls = <<>>

\* variant: a failure that follows a failure is not announced
ShouldNotifyOnChangeOnly(ok, prevOk) == ok \/ prevOk
\* Listeners are called at the end of a cycle that succeeded (ok) or failed,
\* whatever the previous cycle's outcome (prevOk).
ShouldNotify(ok, prevOk) == TRUE

\* variant: a successful command awaits coordinator.async_refresh() itself
CommandRefreshesDirectly(ok) == IF ok THEN 1 ELSE 0
\* await self.async_update_ha_state() after a successful command writes the
\* entity's state; it starts no coordinator refresh.
CommandRefreshes(ok) == 0

\* async_setup_entry up to `await coordinator.async_refresh()`: a new client
\* (logged in, its sites loaded), stored under the entry id, a new
\* coordinator, and the first poll started.
SetupEntry ==
    /\ entryState \in {"not_loaded", "setup_retry"}
    /\ cycles + inFlight < MaxCycles
    /\ entryState' = "setup"
    /\ adtpulse' \in Snapshots
    /\ hassData' = "adtpulse"
    /\ data' = None
    /\ last_update_success' = TRUE
    /\ timerArmed' = FALSE
    /\ inFlight' = inFlight + 1
    /\ pollOrigin' = "setup"
    /\ written' = {}
    /\ target' \in Snapshots
    /\ before' = adtpulse'
    /\ observed' = NoObservation
    /\ UNCHANGED <<cycles, lastCycle, platforms, listeners, subscribedAt,
                   notified, displayed, icon, lastCommand>>
    /\ UNCHANGED nonSysVars

\* The scheduled refresh fires: the coordinator starts a poll.
Tick ==
    /\ timerArmed
    /\ cycles + inFlight < MaxCycles
    /\ timerArmed' = TimerWhilePolling(timerArmed)
    /\ inFlight' = inFlight + 1
    /\ pollOrigin' = "tick"
    /\ written' = {}
    /\ target' \in Snapshots
    /\ before' = adtpulse
    /\ observed' = NoObservation
    /\ UNCHANGED <<entryState, hassData, adtpulse, data, last_update_success,
                   cycles, lastCycle, platforms, listeners, subscribedAt, notified,
                   displayed, icon, lastCommand>>
    /\ UNCHANGED nonSysVars

\* self.adtpulse.update running in the executor: it refreshes one more field
\* of the client object, in place.
ExecWrite(f) ==
    /\ inFlight > 0
    /\ f \in Fields \ written
    /\ adtpulse' = [adtpulse EXCEPT ![f] = target[f]]
    /\ written' = written \cup {f}
    /\ UNCHANGED <<entryState, hassData, data, last_update_success, inFlight,
                   pollOrigin, target, before, timerArmed, cycles, lastCycle,
                   platforms, listeners, subscribedAt, notified, displayed, icon,
                   observed, lastCommand>>
    /\ UNCHANGED nonSysVars

\* The end of a cycle.  ok: update() returned and _async_update_data returns
\* self.adtpulse; ~ok: update() raised (at any point of its work) and
\* _async_update_data raises UpdateFailed.  The coordinator records the
\* outcome, schedules the next refresh when it has listeners and calls the
\* listeners; a cycle started by async_setup_entry continues there.
\* variant: the coordinator is never written over the client stored at line 63
StoredClientLeft(outcome, old) == old

\* hass.data[ADTPULSE_DOMAIN][entry.entry_id] when async_setup_entry ends: the
\* coordinator once the first poll succeeded; ConfigEntryNotReady is raised
\* before that assignment and leaves what line 63 stored
StoredAfterFirstPoll(outcome, old) == IF outcome = "loaded" THEN "coordinator" ELSE old

PollFinish(ok) ==
    /\ inFlight > 0
    /\ ok => written = Fields
    /\ LET notify == ShouldNotify(ok, last_update_success)
           told == IF notify THEN Range(listeners) ELSE {}
           outcome == SetupOutcome(ok)
       IN
       /\ data' = IF ok THEN "adtpulse" ELSE data
       /\ last_update_success' = ok
       /\ timerArmed' = IF listeners # <<>> THEN TRUE ELSE timerArmed
       /\ cycles' = cycles + 1
       /\ lastCycle' = [ok |-> ok, origin |-> pollOrigin,
                        prevOk |-> last_update_success]
       /\ notified' = [e \in Entities |->
                          IF e \in told THEN Append(notified[e], cycles + 1)
                          ELSE notified[e]]
       /\ displayed' = IF "alarm" \in told THEN PanelStatus(adtpulse) ELSE displayed
       /\ icon' = IF "zone" \in told THEN SetIcon(ZoneDeviceClass, ZoneIsOn(adtpulse))
                  ELSE icon
       /\ IF pollOrigin = "setup"
          THEN /\ entryState' = outcome
               /\ hassData' = StoredAfterFirstPoll(outcome, hassData)
               /\ platforms' = IF outcome = "loaded"
                               THEN [p \in SUPPORTED_PLATFORMS |-> "pending"]
                               ELSE platforms
          ELSE UNCHANGED <<entryState, hassData, platforms>>
    /\ inFlight' = inFlight - 1
    /\ pollOrigin' = "none"
    /\ written' = {}
    /\ UNCHANGED <<adtpulse, target, before, listeners, subscribedAt, observed,
                   lastCommand>>
    /\ UNCHANGED nonSysVars

PollSucceed == PollFinish(TRUE)
PollFail == PollFinish(FALSE)

(***************************************************************************)
(* The platforms: alarm_control_panel.py and binary_sensor.py              *)
(***************************************************************************)
\* An entity added to hass registers its update callback with the
\* coordinator.
Subscribe(ls, es) == ls \o es

\* alarm_control_panel.async_setup_entry: one ADTPulseAlarm for the site.
AlarmPlatformSetup ==
    /\ platforms["alarm_control_panel"] = "pending"
    /\ IF hassData = "coordinator" /\ AlarmMapLookup(adtpulse.status) # KeyError
       THEN /\ platforms' = [platforms EXCEPT !["alarm_control_panel"] = "done"]
            /\ listeners' = Subscribe(listeners, <<"alarm">>)
            /\ timerArmed' = IF ScheduleOnSubscribe(listeners) THEN TRUE ELSE timerArmed
            /\ subscribedAt' = [subscribedAt EXCEPT !["alarm"] = cycles]
            /\ displayed' = PanelStatus(adtpulse)
       ELSE /\ platforms' = [platforms EXCEPT !["alarm_control_panel"] = "failed"]
            /\ UNCHANGED <<listeners, timerArmed, subscribedAt, displayed>>
    /\ UNCHANGED <<entryState, hassData, adtpulse, data, last_update_success,
                   inFlight, pollOrigin, written, target, before, cycles, lastCycle,
                   notified, icon, observed, lastCommand>>
    /\ UNCHANGED nonSysVars

\* binary_sensor.async_setup_entry: the zone sensor of the site's zone and
\* the gateway sensor.
SensorPlatformSetup ==
    /\ platforms["binary_sensor"] = "pending"
    /\ IF hassData = "coordinator" /\ ZoneDeviceClass # ValueError
       THEN /\ platforms' = [platforms EXCEPT !["binary_sensor"] = "done"]
            /\ listeners' = Subscribe(listeners, <<"zone", "gateway">>)
            /\ timerArmed' = IF ScheduleOnSubscribe(listeners) THEN TRUE ELSE timerArmed
            /\ subscribedAt' = [subscribedAt EXCEPT !["zone"] = cycles,
                                                    !["gateway"] = cycles]
            /\ icon' = SetIcon(ZoneDeviceClass, ZoneIsOn(adtpulse))
       ELSE /\ platforms' = [platforms EXCEPT !["binary_sensor"] = "failed"]
            /\ UNCHANGED <<listeners, timerArmed, subscribedAt, icon>>
    /\ UNCHANGED <<entryState, hassData, adtpulse, data, last_update_success,
                   inFlight, pollOrigin, written, target, before, cycles, lastCycle,
                   notified, displayed, observed, lastCommand>>
    /\ UNCHANGED nonSysVars

\* _perform_alarm_action for one of the four commands; ok is the result of
\* the remote operation.
AlarmCommand(cmd, ok) ==
    /\ "alarm" \in Range(listeners)
    /\ displayed' = IF ok THEN PanelStatus(adtpulse) ELSE displayed
    /\ inFlight' = inFlight + CommandRefreshes(ok)
    /\ lastCommand' = [issued |-> TRUE, ok |-> ok, polls |-> inFlight' - inFlight,
                       shownBefore |-> displayed]
    /\ UNCHANGED <<entryState, hassData, adtpulse, data, last_update_success,
                   pollOrigin, written, target, before, timerArmed, cycles, lastCycle,
                   platforms, listeners, subscribedAt, notified, icon, observed>>
    /\ UNCHANGED nonSysVars

\* the platform an entity belongs to
EntityPlatform(e) == IF e = "alarm" THEN "alarm_control_panel" ELSE "binary_sensor"
\* An entity removed from hass takes its update callback off the coordinator.
Unsubscribe(ls, ps) == SelectSeq(ls, LAMBDA e : EntityPlatform(e) \notin ps)
\* The coordinator cancels its scheduled refresh when its last listener goes.
TimerAfterRemoval(ls, armed) == IF ls = <<>> THEN FALSE ELSE armed

\* variant: only the alarm platform is asked to unload
PlatformsToUnloadAlarmOnly == {"alarm_control_panel"}
\* [async_forward_entry_unload(entry, component) for component in SUPPORTED_PLATFORMS]
PlatformsToUnload == SUPPORTED_PLATFORMS

\* variant: the entry is popped whatever the platform unloads returned
PoppedAlways(unload_ok, old) == "absent"
\* if unload_ok: hass.data[ADTPULSE_DOMAIN].pop(entry.entry_id)
PoppedOnUnload(unload_ok, old) == IF unload_ok THEN "absent" ELSE old

\* async_unload_entry: unloaded are the platforms whose unload returned True;
\* their entities are removed.  unload_ok = all(...): the entry is popped from
\* hass.data only then.  The model follows one coordinator to its teardown: a
\* later setup of the entry would build a new client and a new coordinator.
UnloadEntry(unloaded) ==
    /\ entryState = "loaded"
    /\ \A p \in SUPPORTED_PLATFORMS : platforms[p] # "pending"
    /\ unloaded \subseteq PlatformsToUnload
    /\ LET unload_ok == (unloaded = PlatformsToUnload) IN
       /\ entryState' = IF unload_ok THEN "unloaded" ELSE "failed_unload"
       /\ hassData' = PoppedOnUnload(unload_ok, hassData)
    /\ platforms' = [p \in SUPPORTED_PLATFORMS |->
                        IF p \in unloaded THEN "none" ELSE platforms[p]]
    /\ listeners' = Unsubscribe(listeners, unloaded)
    /\ timerArmed' = TimerAfterRemoval(listeners', timerArmed)
    /\ UNCHANGED <<adtpulse, data, last_update_success, inFlight, pollOrigin,
                   written, target, before, cycles, lastCycle, subscribedAt,
                   notified, displayed, icon, observed, lastCommand>>
    /\ UNCHANGED nonSysVars

\* The host reads the entities' properties: the panel's status, the zone
\* sensor's is_on, the gateway sensor's is_on.
ReadEntities ==
    /\ Range(listeners) = Entities
    /\ observed' = View(adtpulse)
    /\ UNCHANGED <<entryState, hassData, adtpulse, data, last_update_success,
                   inFlight, pollOrigin, written, target, before, timerArmed, cycles,
                   lastCycle, platforms, listeners, subscribedAt, notified, displayed,
                   icon, lastCommand>>
    /\ UNCHANGED nonSysVars

SysNext ==
    \/ SetupEntry
    \/ Tick
    \/ \E f \in Fields : ExecWrite(f)
    \/ PollSucceed
    \/ PollFail
    \/ AlarmPlatformSetup
    \/ SensorPlatformSetup
    \/ \E cmd \in Commands, ok \in BOOLEAN : AlarmCommand(cmd, ok)
    \/ ReadEntities
    \/ \E unloaded \in SUBSET SUPPORTED_PLATFORMS : UnloadEntry(unloaded)

Init == SysInit /\ FnIdle /\ IconIdle /\ PlIdle /\ FlowIdle
Next == SysNext
Spec == Init /\ [][Next]_vars

(***************************************************************************)
(* SpecFn: the constructors of the panel and of the zone sensor applied to *)
(* bounded sets of inputs                                                  *)
(***************************************************************************)
MaxTags == 3        \* longest tag list of a zone

\* alarm codes a site can be given: the six of ALARM_MAP and two others
VendorInputs == DOMAIN ALARM_MAP \cup {"night", "triggered"}
\* tags a zone can carry: the marker, the keys of the table, one other
TagUniverse == {"sensor", "other"} \cup Range(TagTable)
TagLists == UNION {[1..n -> TagUniverse] : n \in 0..MaxTags}
Name_Hallway == <<"H", "a", "l", "l", "w", "a", "y">>
Name_FrontDoor == <<"F", "r", "o", "n", "t", " ", "D", "o", "o", "r">>
Name_LivingRoomWindow == <<"L", "i", "v", "i", "n", "g", " ", "R", "o", "o", "m", " ", "W", "i", "n", "d", "o", "w">>
Name_kitchen_window == <<"k", "i", "t", "c", "h", "e", "n", " ", "w", "i", "n", "d", "o", "w">>
Name_PATIO_WINDOW == <<"P", "A", "T", "I", "O", " ", "W", "I", "N", "D", "O", "W">>
ZoneNames == {Name_Hallway, Name_FrontDoor, Name_LivingRoomWindow,
              Name_kitchen_window, Name_PATIO_WINDOW}

\* Either a site whose panel is built (site_status is its alarm code), or no
\* site (None) and a zone whose sensor is built.
FnInit ==
    /\ panel_state = "unset"
    /\ panel_status = "unset"
    /\ device_class = "unset"
    /\ zone_icon = "unset"
    /\ icon_seen = NoIcons
    /\ handled = NoHandled
    /\ \/ /\ site_status \in VendorInputs
          /\ zone_tags = <<>>
          /\ zone_name = Name_Hallway
          /\ zone_state = STATE_OK
       \/ /\ site_status = None
          /\ zone_tags \in TagLists
          /\ zone_name \in ZoneNames
          /\ zone_state \in ZoneStates

\* ADTPulseAlarm.__init__: ALARM_MAP[self._site.status] is evaluated for the
\* base class; KeyError when the subscript raises.
ConstructPanel ==
    /\ site_status # None
    /\ panel_state = "unset"
    /\ panel_state' = AlarmMapLookup(site_status)
    /\ UNCHANGED <<site_status, panel_status, zone_tags, zone_name, device_class>>
    /\ UNCHANGED iconVars
    /\ UNCHANGED <<sysVars, plVars, flowVars>>

\* The library gives the site of a built panel another alarm code.
SiteStatusUpdate(code) ==
    /\ panel_state \notin {"unset", KeyError}
    /\ panel_status = "unset"
    /\ code # site_status
    /\ site_status' = code
    /\ UNCHANGED <<panel_state, panel_status, zone_tags, zone_name, device_class>>
    /\ UNCHANGED iconVars
    /\ UNCHANGED <<sysVars, plVars, flowVars>>

\* ADTPulseAlarm.status
ReadStatus ==
    /\ panel_state \notin {"unset", KeyError}
    /\ panel_status = "unset"
    /\ panel_status' = AlarmMapLookup(site_status)
    /\ UNCHANGED <<site_status, panel_state, zone_tags, zone_name, device_class>>
    /\ UNCHANGED iconVars
    /\ UNCHANGED <<sysVars, plVars, flowVars>>

\* ADTPulseZoneSensor.__init__: self._device_class = _determine_device_class(zone)
\* and, when that did not raise, self._set_icon()
ConstructZoneSensor ==
    /\ device_class = "unset"
    /\ device_class' = DetermineDeviceClass(zone_tags, zone_name)
    /\ IF device_class' = ValueError
       THEN UNCHANGED <<zone_icon, icon_seen>>
       ELSE /\ zone_icon' = SetIcon(device_class', ZoneStateIsOn(zone_state))
            /\ icon_seen' = [icon_seen EXCEPT ![ZoneStateIsOn(zone_state)] = zone_icon']
    /\ UNCHANGED <<site_status, panel_state, panel_status, zone_tags, zone_name, zone_state>>
    /\ UNCHANGED handled
    /\ UNCHANGED <<sysVars, plVars, flowVars>>

\* The library gives the zone of a built sensor another state.
ZoneStateUpdate(state) ==
    /\ device_class \notin {"unset", ValueError}
    /\ state # zone_state
    /\ zone_state' = state
    /\ UNCHANGED <<zone_icon, icon_seen, handled>>
    /\ UNCHANGED fnVars
    /\ UNCHANGED <<sysVars, plVars, flowVars>>

\* the icon a notification leaves when the handler does not call _set_icon
IconKeptOnUpdate(dc, is_on, old) == old

\* the _icon after _handle_coordinator_update: _set_icon() runs on each call
IconOnUpdate(dc, is_on, old) == SetIcon(dc, is_on)

\* ADTPulseZoneSensor._handle_coordinator_update: self._set_icon(), then the
\* base handler writes the state, which reads is_on
ZoneHandleCoordinatorUpdate ==
    /\ device_class \notin {"unset", ValueError}
    /\ zone_icon' = IconOnUpdate(device_class, ZoneStateIsOn(zone_state), zone_icon)
    /\ icon_seen' = [icon_seen EXCEPT ![ZoneStateIsOn(zone_state)] = zone_icon']
    /\ handled' = [state |-> zone_state, is_on |-> ZoneStateIsOn(zone_state)]
    /\ UNCHANGED zone_state
    /\ UNCHANGED fnVars
    /\ UNCHANGED <<sysVars, plVars, flowVars>>

FnNext ==
    \/ ConstructPanel
    \/ \E code \in VendorInputs : SiteStatusUpdate(code)
    \/ ReadStatus
    \/ ConstructZoneSensor
    \/ \E state \in ZoneStates : ZoneStateUpdate(state)
    \/ ZoneHandleCoordinatorUpdate

InitFn == SysInit /\ FnInit /\ PlIdle /\ FlowIdle
SpecFn == InitFn /\ [][FnNext]_vars

(***************************************************************************)
(* SpecPlatform: binary_sensor.async_setup_entry applied to a service.     *)
(* A site is the list of its zones (site.zones_as_dict, in key order), a   *)
(* zone is its tag list; site and zone ids are the positions.              *)
(***************************************************************************)
MaxSites == 2        \* sites of a service
MaxZones == 2        \* zones of a site

\* tag lists of the zones: two that classify, one that lacks "sensor"
PlatformZoneTags == {<<"sensor", "doorWindow">>, <<"sensor", "motion">>, <<"motion">>}
SiteInputs == UNION {[1..m -> PlatformZoneTags] : m \in 0..MaxZones}
ServiceInputs == UNION {[1..n -> SiteInputs] : n \in 0..MaxSites}

\* ADTPulseZoneSensor(coordinator, site, zone_id): the entity; its
\* device_class is ValueError when _determine_device_class raises in the
\* constructor and no entity results
ZoneSensor(ss, i, j) ==
    [kind |-> "zone",
     device_class |-> DetermineDeviceClass(ss[i][j], Name_FrontDoor),
     unique_id |-> <<"adt_pulse_sensor", i, j>>]
\* ADTPulseGatewaySensor(coordinator, adt_service); its unique_id is built
\* from sites[0].id
GatewaySensor ==
    [kind |-> "gateway", device_class |-> CONNECTIVITY,
     unique_id |-> <<"adt_pulse_gateway_connection", 1, 0>>]

\* for site in adt_service.sites: ... from site i on, added being the lists
\* passed to async_add_entities so far
RECURSIVE SetupSitesFrom(_, _, _)
SetupSitesFrom(ss, i, added) ==
    IF i > Len(ss) THEN [added |-> added, result |-> "returned"]
    ELSE IF ss[i] = <<>> THEN SetupSitesFrom(ss, i + 1, added)
    ELSE LET entities == [j \in DOMAIN ss[i] |-> ZoneSensor(ss, i, j)] IN
         IF \E j \in DOMAIN entities : entities[j].device_class = ValueError
         THEN [added |-> added, result |-> "raised"]
         ELSE SetupSitesFrom(ss, i + 1, added \o <<entities, <<GatewaySensor>>>>)

PlInit ==
    /\ sites \in ServiceInputs
    /\ added_entities = <<>>
    /\ setup_result = "unset"

\* binary_sensor.async_setup_entry; nothing is awaited inside it
BinarySensorSetup ==
    /\ setup_result = "unset"
    /\ LET done == SetupSitesFrom(sites, 1, <<>>) IN
       /\ added_entities' = done.added
       /\ setup_result' = done.result
    /\ UNCHANGED sites
    /\ UNCHANGED <<sysVars, fnVars, iconVars, flowVars>>

PlNext == BinarySensorSetup

InitPlatform == SysInit /\ FnIdle /\ IconIdle /\ PlInit /\ FlowIdle
SpecPlatform == InitPlatform /\ [][PlNext]_vars

(***************************************************************************)
(* SpecFlow: config_flow.py.  A flow is at the form, or inside             *)
(* validate_input awaiting the login, or finished.  Several flows can be   *)
(* in progress at once; the entries are shared.                            *)
(***************************************************************************)
MaxSubmissions == 2  \* forms submitted in one behaviour

Usernames == {"alice", "bob"}
Passwords == {"pw1", "pw2"}
UserInputs ==
    [username : Usernames, password : Passwords,
     fingerprint : {"fp"}, hostname : {"portal.adtpulse.com"}]
\* what async_login does: returns True, returns False, or raises
LoginOutcomes == {"true", "false", "raises"}

\* data=user_input: the four credential keys, no "title"
DataOfUserInput(user_input) ==
    [k \in DataKeys |-> IF k = "title" THEN None ELSE user_input[k]]
\* data=info: the dict validate_input returned, {"title": ...} and nothing else
DataOfInfo(info) == [k \in DataKeys |-> IF k = "title" THEN info.title ELSE None]

\* _async_entry_for_username: the first entry whose data.get(CONF_USERNAME)
\* is the username; 0 for None
RECURSIVE EntryForUsernameFrom(_, _, _)
EntryForUsernameFrom(es, username, i) ==
    IF i > Len(es) THEN 0
    ELSE IF es[i][CONF_USERNAME] = username THEN i
    ELSE EntryForUsernameFrom(es, username, i + 1)
EntryForUsername(es, username) == EntryForUsernameFrom(es, username, 1)

\* variant: logout only after a login that did not raise
LogoutCallsUnlessLoginRaised(login) == IF login = "raises" THEN 0 ELSE 1
\* finally: await adtpulse.async_logout()
LogoutCalls(login) == 1

\* validate_input from the return of the awaited login on: "ok" for the info
\* dict, or the name of the exception it raises.  has_sites: adtpulse.sites[0]
\* can be read; logout_raises: async_logout raises inside the finally.
ValidateInput(login, has_sites, logout_raises) ==
    LET tried == IF login = "raises" \/ ~has_sites THEN "CannotConnect" ELSE "none" IN
    IF logout_raises THEN "Exception"
    ELSE IF tried # "none" THEN tried
    ELSE IF login = "false" THEN "InvalidAuth"
    ELSE "ok"

\* the except clauses of async_step_user
ErrorsOf(outcome) ==
    CASE outcome = "CannotConnect" -> "cannot_connect"
      [] outcome = "InvalidAuth" -> "invalid_auth"
      [] outcome = "ok" -> "none"
      [] OTHER -> "unknown"

\* async_reload of an entry: async_setup_entry subscripts entry.data with the
\* four credential keys
ReloadEntry(entry_data) ==
    IF \E k \in CredentialKeys : entry_data[k] = None THEN KeyError ELSE "ok"

\* async_step_user(None): the form is shown
StartUserFlow(f) ==
    /\ flows[f].pc \in {"idle", "done"}
    /\ submissions < MaxSubmissions
    /\ flows' = [flows EXCEPT ![f] = [NoFlow EXCEPT !.pc = "form", !.result = "form"]]
    /\ UNCHANGED <<entries, submissions, reloaded>>
    /\ UNCHANGED <<sysVars, fnVars, iconVars, plVars>>

\* async_step_reauth for an entry: self.reauth = True, then the form
StartReauth(f, e) ==
    /\ flows[f].pc \in {"idle", "done"}
    /\ submissions < MaxSubmissions
    /\ e \in DOMAIN entries
    /\ flows' = [flows EXCEPT ![f] = [NoFlow EXCEPT !.pc = "form", !.result = "form",
                                                    !.reauth = TRUE]]
    /\ UNCHANGED <<entries, submissions, reloaded>>
    /\ UNCHANGED <<sysVars, fnVars, iconVars, plVars>>

\* async_step_user(user_input) up to the await of the login in validate_input
SubmitForm(f, user_input) ==
    /\ flows[f].pc = "form"
    /\ submissions < MaxSubmissions
    /\ submissions' = submissions + 1
    /\ LET existing_entry == EntryForUsername(entries, user_input[CONF_USERNAME]) IN
       IF existing_entry # 0 /\ ~flows[f].reauth
       THEN flows' = [flows EXCEPT ![f].pc = "done",
                                   ![f].user_input = user_input,
                                   ![f].existing_entry = existing_entry,
                                   ![f].errors = "none",
                                   ![f].result = "already_configured",
                                   ![f].logins = 0, ![f].logouts = 0,
                                   ![f].login = "none", ![f].has_sites = FALSE,
                                   ![f].logout_raises = FALSE]
       ELSE flows' = [flows EXCEPT ![f].pc = "validating",
                                   ![f].user_input = user_input,
                                   ![f].existing_entry = existing_entry,
                                   ![f].errors = "none",
                                   ![f].result = "none",
                                   ![f].logins = 1, ![f].logouts = 0,
                                   ![f].login = "none", ![f].has_sites = FALSE,
                                   ![f].logout_raises = FALSE]
    /\ UNCHANGED <<entries, reloaded>>
    /\ UNCHANGED <<sysVars, fnVars, iconVars, plVars>>

\* variant: the record is written whatever the except clauses set
RecordWrittenAlways(errors) == TRUE
\* if not errors: the entry is updated and reloaded, or created
RecordWritten(errors) == errors = "none"

\* the rest of validate_input and of async_step_user
FinishValidation(f, login, has_sites, logout_raises) ==
    /\ flows[f].pc = "validating"
    /\ login = "raises" => ~has_sites
    /\ LET outcome == ValidateInput(login, has_sites, logout_raises)
           errors == ErrorsOf(outcome)
           existing_entry == flows[f].existing_entry
           info == [title |-> "ADT: Site"]
           counted == [flows EXCEPT ![f].logouts = @ + LogoutCalls(login),
                                    ![f].errors = errors,
                                    ![f].login = login,
                                    ![f].has_sites = has_sites,
                                    ![f].logout_raises = logout_raises]
       IN
       IF ~RecordWritten(errors)
       THEN /\ flows' = [counted EXCEPT ![f].pc = "form", ![f].result = "form"]
            /\ UNCHANGED <<entries, reloaded>>
       ELSE IF existing_entry # 0
       THEN /\ entries' = [entries EXCEPT ![existing_entry] = DataOfInfo(info)]
            /\ reloaded' = ReloadEntry(entries'[existing_entry])
            /\ flows' = [counted EXCEPT ![f].pc = "done",
                                         ![f].result = "reauth_successful"]
       ELSE /\ entries' = Append(entries, DataOfUserInput(flows[f].user_input))
            /\ flows' = [counted EXCEPT ![f].pc = "done", ![f].result = "create_entry"]
            /\ UNCHANGED reloaded
    /\ UNCHANGED submissions
    /\ UNCHANGED <<sysVars, fnVars, iconVars, plVars>>

FlowNext ==
    \/ \E f \in Flows : StartUserFlow(f)
    \/ \E f \in Flows, e \in 1..MaxSubmissions : StartReauth(f, e)
    \/ \E f \in Flows, user_input \in UserInputs : SubmitForm(f, user_input)
    \/ \E f \in Flows, login \in LoginOutcomes, has_sites \in BOOLEAN,
          logout_raises \in BOOLEAN : FinishValidation(f, login, has_sites, logout_raises)

InitFlow == SysInit /\ FnIdle /\ IconIdle /\ PlIdle /\ FlowIdle
SpecFlow == InitFlow /\ [][FlowNext]_vars

(***************************************************************************)
(* Claims                                                                  *)
(***************************************************************************)
\* the cycle that just ended was started by the refresh timer, with entities
\* subscribed
AfterScheduledCycle == cycles > 0 /\ inFlight = 0 /\ lastCycle.origin = "tick"

\* C1: after a poll cycle that failed, the snapshot the entities see is,
\* field for field, the one published before the cycle started; after a
\* cycle that succeeded it is the state fetched from the service.
C1_FailedCycleKeepsSnapshot ==
    AfterScheduledCycle =>
        IF lastCycle.ok THEN adtpulse = target ELSE adtpulse = before

C3_AtMostOnePoll == inFlight <= 1 /\ (inFlight = 1 => ~timerArmed)
\* a scheduled poll in flight with all entities set up and a command issued
C3_Witness ==
    /\ inFlight = 1 /\ pollOrigin = "tick" /\ cycles >= 2
    /\ Range(listeners) = Entities
    /\ lastCommand.issued

\* C4: a command whose remote operation succeeded started exactly one
\* coordinator refresh; one whose remote operation failed started none.
C4_CommandRefreshesOnce ==
    lastCommand.issued =>
        IF lastCommand.ok THEN lastCommand.polls = 1 ELSE lastCommand.polls = 0

\* no platform is set up and no entity exists before a first poll succeeded
C5_NothingBeforeFirstSuccess ==
    entryState \in {"not_loaded", "setup", "setup_retry"} =>
        /\ \A p \in SUPPORTED_PLATFORMS : platforms[p] = "none"
        /\ listeners = <<>>
        /\ hassData # "coordinator"
\* the step that ends a failed cycle: fatal to the setup that started it,
\* otherwise only last_update_success changes
C5_FailedCycleStep ==
    (cycles' = cycles + 1 /\ ~lastCycle'.ok) =>
        IF pollOrigin = "setup"
        THEN entryState' = "setup_retry" /\ platforms' = platforms
             /\ listeners' = listeners
        ELSE /\ entryState # "setup" /\ entryState' = entryState
             /\ platforms' = platforms /\ listeners' = listeners
             /\ hassData' = hassData /\ data' = data
             /\ ~last_update_success'
\* C5: until the first poll of async_setup_entry has succeeded no platform
\* setup is started and no entity exists, and a first poll that fails ends
\* setup with ConfigEntryNotReady; once the entry is loaded, a poll that
\* fails leaves the entry loaded, the platforms, the entities, the stored
\* coordinator and its data as they were and only clears
\* last_update_success.
C5_SetupFailureFatalLaterFailuresNot ==
    [](C5_NothingBeforeFirstSuccess) /\ [][C5_FailedCycleStep]_vars
\* a loaded entry with its entities whose last scheduled poll failed
C5_Witness ==
    /\ entryState = "loaded" /\ Range(listeners) = Entities
    /\ AfterScheduledCycle /\ ~lastCycle.ok /\ ~last_update_success

\* C6: what the entities' properties return while a poll is being executed
\* is the view of the snapshot before the poll or of the snapshot after it.
C6_NoTornRead ==
    (inFlight > 0 /\ observed # NoObservation) =>
        observed \in {View(before), View(target)}

\* the state documented for a vendor code; unknown is None
DocumentedAlarmState(code) ==
    CASE code = ADT_ALARM_ARMING -> STATE_ALARM_ARMING
      [] code = ADT_ALARM_AWAY -> STATE_ALARM_ARMED_AWAY
      [] code = ADT_ALARM_DISARMING -> STATE_ALARM_DISARMING
      [] code = ADT_ALARM_HOME -> STATE_ALARM_ARMED_HOME
      [] code = ADT_ALARM_OFF -> STATE_ALARM_DISARMED
      [] OTHER -> None
\* C7: each of the six vendor codes maps to its documented state and every
\* other code maps to unknown (None); neither the construction of the panel
\* nor a read of its status raises.
C7_AlarmMapTotal ==
    /\ panel_state # KeyError
    /\ panel_status # KeyError
    /\ panel_status # "unset" => panel_status = DocumentedAlarmState(site_status)

\* the table tags among a zone's tags
TableTagsOf(tags) == Range(tags) \cap Range(TagTable)
\* lower case of the letters the zone names use
Lower(c) ==
    CASE c = "A" -> "a" [] c = "D" -> "d" [] c = "F" -> "f" [] c = "H" -> "h"
      [] c = "I" -> "i" [] c = "L" -> "l" [] c = "N" -> "n" [] c = "O" -> "o"
      [] c = "P" -> "p" [] c = "R" -> "r" [] c = "T" -> "t" [] c = "W" -> "w"
      [] OTHER -> c
NameHasWindowAnyCase(name) ==
    Contains([i \in DOMAIN name |-> Lower(name[i])], Str_window)

DocumentedCategory ==
    ("doorWindow" :> DOOR) @@ ("motion" :> MOTION) @@ ("smoke" :> SMOKE) @@
    ("co" :> CO) @@ ("fire" :> HEAT) @@ ("flood" :> MOISTURE) @@
    ("garage" :> GARAGE_DOOR)
\* C9: "sensor" plus exactly one table tag (other than glass) and a name
\* without "window" gives the category documented for the tag.
C9_SingleTagCategory ==
    \A t \in DOMAIN DocumentedCategory :
        (device_class # "unset" /\ Len(zone_tags) = 2
            /\ Range(zone_tags) = {"sensor", t}
            /\ ~NameHasWindowAnyCase(zone_name)) =>
            device_class = DocumentedCategory[t]

\* C10: a zone without the "sensor" tag is not classified: the classifier
\* raises, whatever other tags the zone has.
C10_NoSensorTagFails ==
    (device_class # "unset" /\ "sensor" \notin Range(zone_tags)) =>
        device_class = ValueError
\* the zone tagged only "motion" was refused
C10_Witness ==
    /\ zone_tags = <<"motion">>
    /\ device_class = ValueError

\* the category the documentation reserves for a sensor without a table tag
GenericCategory == "generic"
\* C11: a zone with the "sensor" tag and no tag of the table is classified as
\* generic; the classifier raises only when the "sensor" tag is absent.
C11_SensorWithoutTableTagIsGeneric ==
    device_class # "unset" =>
        /\ (device_class = ValueError) <=> ("sensor" \notin Range(zone_tags))
        /\ ("sensor" \in Range(zone_tags) /\ TableTagsOf(zone_tags) = {}) =>
               device_class = GenericCategory

\* C12: a zone resolved to door is upgraded to window exactly when its name
\* contains "window" in any letter case; a zone resolved to another category
\* keeps it, whatever its name.
C12_WindowUpgradeAnyCase ==
    (device_class \notin {"unset", ValueError}) =>
        LET resolved == FirstMapped(zone_tags) IN
        IF resolved = DOOR
        THEN (device_class = WINDOW) <=> NameHasWindowAnyCase(zone_name)
        ELSE device_class = resolved

\* a flow whose validate_input has returned or raised
Validated(f) == flows[f].logins = 1 /\ flows[f].pc # "validating"

\* C14: a validate_input that attempted a login has called logout exactly
\* once when it returns or raises, whatever the login did and whether or not
\* the site could be read; none is called before that.
C14_LogoutExactlyOnce ==
    \A f \in Flows :
        /\ flows[f].pc = "validating" => flows[f].logouts = 0
        /\ Validated(f) => flows[f].logouts = 1
        /\ flows[f].logins = 0 => flows[f].logouts = 0
\* a login that raised, reported as cannot_connect, and logged out once
C14_Witness ==
    \E f \in Flows :
        /\ Validated(f) /\ flows[f].login = "raises"
        /\ flows[f].errors = "cannot_connect" /\ flows[f].logouts = 1

\* C15: a login that returned False and left no sites shows invalid_auth; a
\* login that raised shows cannot_connect (async_logout not raising).
C15_FailureKindsNotConflated ==
    \A f \in Flows :
        (Validated(f) /\ ~flows[f].logout_raises) =>
            /\ (flows[f].login = "false" /\ ~flows[f].has_sites) =>
                   flows[f].errors = "invalid_auth"
            /\ flows[f].login = "raises" => flows[f].errors = "cannot_connect"

\* C16: a form submitted outside a reauth flow for a username that has an
\* entry aborts with already_configured and attempts no login; no two
\* entries hold the same username.
C16_OneEntryPerUsername ==
    /\ \A f \in Flows :
          flows[f].result = "already_configured" =>
              flows[f].logins = 0 /\ flows[f].existing_entry # 0 /\ ~flows[f].reauth
    /\ \A i, j \in DOMAIN entries :
          (i # j /\ entries[i][CONF_USERNAME] # None) =>
              entries[i][CONF_USERNAME] # entries[j][CONF_USERNAME]

\* C17: after a reauth flow ended with reauth_successful, the entry it
\* updated holds the four submitted credentials, is found by its username,
\* and its reload succeeded.
C17_ReauthKeepsCredentials ==
    \A f \in Flows :
        flows[f].result = "reauth_successful" =>
            LET e == flows[f].existing_entry IN
            /\ \A k \in CredentialKeys : entries[e][k] = flows[f].user_input[k]
            /\ EntryForUsername(entries, flows[f].user_input[CONF_USERNAME]) = e
            /\ reloaded = "ok"

\* the entities passed to async_add_entities
AddedEntities == UNION {Range(added_entities[n]) : n \in DOMAIN added_entities}

\* C13: binary-sensor setup returns, with an entity for exactly the zones
\* whose classification succeeds, in every site.
C13_PerZoneFailure ==
    setup_result # "unset" =>
        /\ setup_result = "returned"
        /\ \A i \in DOMAIN sites : \A j \in DOMAIN sites[i] :
              (ZoneSensor(sites, i, j).device_class # ValueError) <=>
                  (\E e \in AddedEntities : e.unique_id = <<"adt_pulse_sensor", i, j>>)

\* C18: a binary-sensor setup that returned, for a service with at least one
\* site, has created one gateway entity: the gateway entities added carry
\* exactly one unique id, whether or not the sites have zones.
C18_ExactlyOneGateway ==
    (setup_result = "returned" /\ Len(sites) >= 1) =>
        Cardinality({e.unique_id : e \in {x \in AddedEntities : x.kind = "gateway"}}) = 1

\* C20: once _set_icon has run for a zone both tripped and not tripped, the
\* two icons differ for door, motion, smoke, heat, moisture and garage-door
\* sensors and are the same for window and carbon-monoxide sensors.
C20_IconVariants ==
    (icon_seen[TRUE] # "unset" /\ icon_seen[FALSE] # "unset") =>
        /\ device_class \in {DOOR, MOTION, SMOKE, HEAT, MOISTURE, GARAGE_DOOR} =>
               icon_seen[TRUE] # icon_seen[FALSE]
        /\ device_class \in {WINDOW, CO} => icon_seen[TRUE] = icon_seen[FALSE]

\* after a successful unload nothing is scheduled, subscribed or published
C19_TornDown ==
    entryState = "unloaded" =>
        ~timerArmed /\ listeners = <<>> /\ hassData = "absent"
\* a step taken after a successful unload: it starts no poll, notifies no
\* entity and changes nothing an entity shows or hass.data holds
C19_StepAfterTeardown ==
    entryState = "unloaded" =>
        /\ inFlight' <= inFlight
        /\ notified' = notified
        /\ displayed' = displayed /\ icon' = icon
        /\ hassData' = hassData /\ entryState' = entryState
C21_IconFollowsNotification ==
    handled # NoHandled =>
        /\ handled.is_on = (handled.state # STATE_OK)
        /\ zone_icon = SetIcon(device_class, handled.is_on)

\* a door sensor built closed has handled a notification that found it open
C21_Witness ==
    /\ device_class = DOOR
    /\ icon_seen[FALSE] # "unset"
    /\ handled.state = "Open"
    /\ handled.is_on
    /\ zone_icon = SetIcon(DOOR, TRUE)

\* C22: a platform whose setup has been forwarded belongs to a coordinator
\* whose first poll succeeded (coordinator.data is set, a cycle is counted),
\* and while that setup has not run yet the entry is loaded and hass.data
\* holds the coordinator under the entry id: the platform's read of hass.data
\* finds the coordinator, never the client of line 63 and never a missing key.
C22_PlatformSetupAfterFirstPoll ==
    \A p \in SUPPORTED_PLATFORMS :
        /\ platforms[p] # "none" => (data = "adtpulse" /\ cycles >= 1)
        /\ platforms[p] = "pending" =>
               (entryState = "loaded" /\ hassData = "coordinator")

\* the first setup failed, the retry succeeded, the alarm platform has been
\* set up and the binary_sensor platform is about to read hass.data
C22_Witness ==
    /\ cycles >= 2
    /\ platforms["alarm_control_panel"] = "done"
    /\ platforms["binary_sensor"] = "pending"
    /\ hassData = "coordinator"

\* C23: when async_setup_entry has raised ConfigEntryNotReady (the entry
\* waits for a retry), nothing is stored in hass.data[ADTPULSE_DOMAIN] under
\* the entry id, as before the first call.
C23_FailedSetupLeavesRegistry ==
    entryState = "setup_retry" => hassData = "absent"

\* the step is a return of async_unload_entry
C24_UnloadReturns == entryState = "loaded" /\ entryState' # "loaded"

\* every platform unload of the step returned True: its entities are gone
C24_EveryPlatformUnloaded == \A p \in SUPPORTED_PLATFORMS : platforms'[p] = "none"

\* C24: when async_unload_entry returns, the coordinator has been popped from
\* hass.data if and only if every platform unload returned True, True is
\* returned in exactly that case, and otherwise the stored coordinator is
\* still in place and False is returned.
C24_PopIffAllUnloaded ==
    [][C24_UnloadReturns =>
          /\ hassData = "coordinator"
          /\ (hassData' = "absent") <=> C24_EveryPlatformUnloaded
          /\ (entryState' = "unloaded") <=> C24_EveryPlatformUnloaded
          /\ ~C24_EveryPlatformUnloaded =>
                 (hassData' = "coordinator" /\ entryState' = "failed_unload")]_vars

\* the alarm platform unloaded, the binary_sensor platform did not: False
\* was returned and the coordinator is still stored
C24_Witness ==
    /\ entryState = "failed_unload"
    /\ platforms["alarm_control_panel"] = "none"
    /\ platforms["binary_sensor"] = "done"
    /\ hassData = "coordinator"

\* the step ends the validation of the form flow f submitted
C25_ValidationEnds(f) == flows[f].pc = "validating" /\ flows'[f].pc # "validating"

\* what validate_input did for that submission
C25_Outcome(f) ==
    ValidateInput(flows'[f].login, flows'[f].has_sites, flows'[f].logout_raises)

\* C25: when the validation of a submission ends with CannotConnect,
\* InvalidAuth or another exception, the one error code set is cannot_connect,
\* invalid_auth or unknown respectively, the form is shown again and no entry
\* is created, updated or reloaded; entries change only in a step whose
\* validation ended without error.
C25_NoRecordOnFailedValidation ==
    [][/\ \A f \in Flows :
             (C25_ValidationEnds(f) /\ C25_Outcome(f) # "ok") =>
                 /\ C25_Outcome(f) = "CannotConnect" => flows'[f].errors = "cannot_connect"
                 /\ C25_Outcome(f) = "InvalidAuth" => flows'[f].errors = "invalid_auth"
                 /\ C25_Outcome(f) = "Exception" => flows'[f].errors = "unknown"
                 /\ flows'[f].errors \in {"cannot_connect", "invalid_auth", "unknown"}
                 /\ flows'[f].pc = "form" /\ flows'[f].result = "form"
                 /\ entries' = entries
                 /\ reloaded' = reloaded
       /\ entries' # entries =>
             \E f \in Flows : /\ C25_ValidationEnds(f)
                              /\ C25_Outcome(f) = "ok"
                              /\ flows'[f].errors = "none"]_vars

\* a reauth submission for the stored entry was rejected: invalid_auth is
\* shown on the form, the entry still holds its data and was not reloaded
C25_Witness ==
    \E f \in Flows :
        /\ flows[f].reauth /\ flows[f].existing_entry = 1
        /\ flows[f].logins = 1 /\ flows[f].login = "false"
        /\ flows[f].errors = "invalid_auth"
        /\ flows[f].pc = "form"
        /\ Len(entries) = 1
        /\ entries[1][CONF_PASSWORD] # None
        /\ reloaded = "none"

====
